---- MODULE Spec2Model ----
(***************************************************************************)
(* A model of the country scraper of src/app.py (class CountryScraper and  *)
(* the __main__ batch driver).                                             *)
(*                                                                         *)
(* Python values are represented as follows.                               *)
(*   str    a sequence of one-character strings                            *)
(*   None   the empty tuple << >>; any other value x is wrapped as <<x>>   *)
(*          wherever the code may hold None in its place                   *)
(*   int    an unbounded natural: little-endian sequence of limbs in       *)
(*          0..Base-1 without a leading zero limb (the parsers never       *)
(*          produce a negative number)                                     *)
(*   float  an IEEE-754 binary64 value [m, e] standing for m * 2^e, with   *)
(*          m = 0 (e = 0) or 2^52 <= m < 2^53                              *)
(*                                                                         *)
(* Specifications.                                                         *)
(*   SpecClean   clean_text, applied once and once more to its result      *)
(*   SpecNum     parse_number and parse_float on bounded texts             *)
(*   SpecLang    parse_languages on bounded cells                          *)
(*   SpecRecord  get_country_data on one response, row by row              *)
(*   Spec        the batch: build_neighbors_map, get_all_country_links,    *)
(*               the loop over the links, the write of the output file     *)
(***************************************************************************)
EXTENDS Integers, Sequences, FiniteSets, TLC

VARIABLES
  arg,            \* the argument of the function under study
  ret,            \* the value last returned (c_data in the batch driver)
  pc,             \* the position in the code
  catalog,        \* the response for /wiki/List_of_sovereign_states
  listing,        \* the response for the land-borders listing
  links,          \* the driver's links: each reference with the response it gets
  neighbors_map,  \* scraper.neighbors_map, in insertion order
  idx,            \* the number of references the driver's loop has finished
  all_data,       \* the driver's all_data
  output,         \* the contents of states_final.json, None until written
  page,           \* the response get_country_data works on
  rowi,           \* the index of the next infobox row
  data,           \* get_country_data's data
  pre,            \* data as it was before the last derived-field step
  fired           \* the derivations that have assigned a field of data

vars == <<arg, ret, pc, catalog, listing, links, neighbors_map, idx, all_data,
          output, page, rowi, data, pre, fired>>

----------------------------------------------------------------------------
(* Optional values *)

None == << >>

Some(x) == <<x>>

----------------------------------------------------------------------------
(* Python int: unbounded naturals *)

Base == 2^15

RECURSIVE Trim(_)
Trim(s) ==
  IF s = << >> THEN << >>
  ELSE IF s[Len(s)] = 0 THEN Trim(SubSeq(s, 1, Len(s) - 1)) ELSE s

RECURSIVE BFromInt(_)
BFromInt(n) == IF n = 0 THEN << >> ELSE <<n % Base>> \o BFromInt(n \div Base)

Rest(s) == IF s = << >> THEN << >> ELSE Tail(s)

Low(s) == IF s = << >> THEN 0 ELSE s[1]

RECURSIVE BAddC(_, _, _)
BAddC(a, b, c) ==
  IF a = << >> /\ b = << >>
  THEN (IF c = 0 THEN << >> ELSE <<c>>)
  ELSE LET x == Low(a) + Low(b) + c
       IN  <<x % Base>> \o BAddC(Rest(a), Rest(b), x \div Base)

BAdd(a, b) == BAddC(a, b, 0)

RECURSIVE BSubB(_, _, _)
BSubB(a, b, c) ==
  IF a = << >> THEN << >>
  ELSE LET x == a[1] - Low(b) - c
       IN  IF x < 0 THEN <<x + Base>> \o BSubB(Tail(a), Rest(b), 1)
                    ELSE <<x>> \o BSubB(Tail(a), Rest(b), 0)

\* a - b for a >= b
BSub(a, b) == Trim(BSubB(a, b, 0))

RECURSIVE BLessFrom(_, _, _)
BLessFrom(a, b, i) ==
  IF i = 0 THEN FALSE
  ELSE IF a[i] # b[i] THEN a[i] < b[i] ELSE BLessFrom(a, b, i - 1)

BLess(a, b) ==
  IF Len(a) # Len(b) THEN Len(a) < Len(b) ELSE BLessFrom(a, b, Len(a))

BLeq(a, b) == ~BLess(b, a)

RECURSIVE BMulLimb(_, _, _)
BMulLimb(a, d, c) ==
  IF a = << >> THEN (IF c = 0 THEN << >> ELSE <<c>>)
  ELSE LET x == a[1] * d + c
       IN  <<x % Base>> \o BMulLimb(Tail(a), d, x \div Base)

ShiftLimb(a) == IF a = << >> THEN << >> ELSE <<0>> \o a

RECURSIVE BMul(_, _)
BMul(a, b) ==
  IF a = << >> \/ b = << >> THEN << >>
  ELSE BAdd(Trim(BMulLimb(b, a[1], 0)), ShiftLimb(BMul(Tail(a), b)))

\* a * 2^n for n >= 0
BShl(a, n) ==
  IF a = << >> THEN << >>
  ELSE [i \in 1..(n \div 15) |-> 0] \o Trim(BMulLimb(a, 2^(n % 15), 0))

\* 2^n
BPow2(n) == BShl(<<1>>, n)

\* a divided by a single limb d > 0, from the most significant limb down:
\* the limbs of the quotient and the remainder
RECURSIVE BDivLimb(_, _)
BDivLimb(a, d) ==
  IF a = << >> THEN [q |-> << >>, r |-> 0]
  ELSE LET h   == BDivLimb(Tail(a), d)
           cur == h.r * Base + a[1]
       IN  [q |-> <<cur \div d>> \o h.q, r |-> cur % d]

\* the largest d in lo..hi with d * b <= r (lo * b <= r)
RECURSIVE QuotientLimb(_, _, _, _)
QuotientLimb(r, b, lo, hi) ==
  IF lo = hi THEN lo
  ELSE LET mid == (lo + hi + 1) \div 2
       IN  IF BLeq(Trim(BMulLimb(b, mid, 0)), r)
           THEN QuotientLimb(r, b, mid, hi)
           ELSE QuotientLimb(r, b, lo, mid - 1)

\* long division by a divisor of several limbs, one quotient limb at a time
RECURSIVE BLongDiv(_, _)
BLongDiv(a, b) ==
  IF BLess(a, b) THEN [q |-> << >>, r |-> a]
  ELSE LET h == BLongDiv(a, ShiftLimb(b))
           d == QuotientLimb(h.r, b, 0, Base - 1)
       IN  [q |-> Trim(<<d>> \o h.q), r |-> BSub(h.r, Trim(BMulLimb(b, d, 0)))]

\* floor(a / b) and a mod b for b > 0
BDivMod(a, b) ==
  IF Len(b) = 1
  THEN LET h == BDivLimb(a, b[1])
       IN  [q |-> Trim(h.q), r |-> BFromInt(h.r)]
  ELSE BLongDiv(a, b)

\* floor(a / 2^n) and a mod 2^n for n >= 0
BDivPow2(a, n) ==
  LET q == Trim(BDivLimb(SubSeq(a, (n \div 15) + 1, Len(a)), 2^(n % 15)).q)
  IN  [q |-> q, r |-> BSub(a, BShl(q, n))]

RECURSIVE BPow10(_)
BPow10(n) == IF n = 0 THEN <<1>> ELSE Trim(BMulLimb(BPow10(n - 1), 10, 0))

RECURSIVE BitsOf(_)
BitsOf(x) == IF x = 0 THEN 0 ELSE 1 + BitsOf(x \div 2)

BBitLen(a) ==
  IF a = << >> THEN 0 ELSE 15 * (Len(a) - 1) + BitsOf(a[Len(a)])

BIsOdd(a) == Low(a) % 2 = 1

----------------------------------------------------------------------------
(* Python float: IEEE-754 binary64, round to nearest, ties to even *)

MantBits == 53

FZero == [m |-> << >>, e |-> 0]

\* q rounded to the nearest integer, ties to even, where the exact value is
\* q + (r / d) with 0 <= r < d
RoundHalfEven(q, r, d) ==
  LET twice == BAdd(r, r)
  IN  IF BLess(d, twice) \/ (twice = d /\ BIsOdd(q)) THEN BAdd(q, <<1>>) ELSE q

\* the double nearest to n * 2^e
RoundScaled(n, e) ==
  IF n = << >> THEN FZero
  ELSE LET drop == BBitLen(n) - MantBits
       IN  IF drop <= 0 THEN [m |-> BShl(n, -drop), e |-> e + drop]
           ELSE LET c == BDivPow2(n, drop)
                    m == RoundHalfEven(c.q, c.r, BPow2(drop))
                IN  IF m = BPow2(MantBits)
                    THEN [m |-> BPow2(MantBits - 1), e |-> e + drop + 1]
                    ELSE [m |-> m, e |-> e + drop]

\* the double nearest to num / den (den > 0): the quotient is taken to two
\* bits more than the significand, with a last bit that tells whether the
\* division left a remainder
RoundRatio(num, den) ==
  IF num = << >> THEN FZero
  ELSE LET s  == (MantBits + 2) - (BBitLen(num) - BBitLen(den))
           qr == IF s >= 0 THEN BDivMod(BShl(num, s), den)
                           ELSE BDivMod(num, BShl(den, -s))
           sticky == IF qr.r = << >> THEN << >> ELSE <<1>>
       IN  RoundScaled(BAdd(BAdd(qr.q, qr.q), sticky), (-s) - 1)

\* float(<numeral>) for the numeral n / 10^d
FloatOfDecimal(n, d) == RoundRatio(n, BPow10(d))

\* float(n) for an int n
FloatOfInt(n) == RoundScaled(n, 0)

\* x * y
FMul(x, y) == RoundScaled(BMul(x.m, y.m), x.e + y.e)

\* x / y for y # 0
FDiv(x, y) ==
  LET e == x.e - y.e
  IN  IF e >= 0 THEN RoundRatio(BShl(x.m, e), y.m)
                ELSE RoundRatio(x.m, BShl(y.m, -e))

\* int(x): truncation toward zero
IntOfFloat(x) == IF x.e >= 0 THEN BShl(x.m, x.e) ELSE BDivPow2(x.m, -x.e).q

\* the number of tenths in f"{x:.1f}": x rounded to one decimal
TenthsOf(x) ==
  LET n == Trim(BMulLimb(x.m, 10, 0))
  IN  IF x.e >= 0 THEN BShl(n, x.e)
      ELSE LET c == BDivPow2(n, -x.e)
           IN  RoundHalfEven(c.q, c.r, BPow2(-x.e))

\* float(f"{x:.1f}")
RoundOneDecimal(x) == FloatOfDecimal(TenthsOf(x), 1)

----------------------------------------------------------------------------
(* Python str *)

NL == "\n"

\* the characters \s matches and str.strip() strips
IsSpace(c) == c \in {" ", NL, "\t", "\r"}

IsDigit(c) == c \in {"0", "1", "2", "3", "4", "5", "6", "7", "8", "9"}

\* the first index i >= from with s[i] in cs, or 0
RECURSIVE IndexFrom(_, _, _)
IndexFrom(s, cs, from) ==
  IF from > Len(s) THEN 0
  ELSE IF s[from] \in cs THEN from ELSE IndexFrom(s, cs, from + 1)

\* t in s
RECURSIVE ContainsFrom(_, _, _)
ContainsFrom(s, t, i) ==
  IF i + Len(t) - 1 > Len(s) THEN FALSE
  ELSE IF SubSeq(s, i, i + Len(t) - 1) = t THEN TRUE
  ELSE ContainsFrom(s, t, i + 1)

Contains(s, t) == ContainsFrom(s, t, 1)

StartsWith(s, t) == Len(s) >= Len(t) /\ SubSeq(s, 1, Len(t)) = t

\* s.replace(c, "") for a character c
RemoveChar(s, c) == SelectSeq(s, LAMBDA x : x # c)

\* s.replace(c, d) for characters c, d
ReplaceChar(s, c, d) == [i \in 1..Len(s) |-> IF s[i] = c THEN d ELSE s[i]]

RECURSIVE LStrip(_)
LStrip(s) ==
  IF s # << >> /\ IsSpace(s[1]) THEN LStrip(Tail(s)) ELSE s

RECURSIVE RStrip(_)
RStrip(s) ==
  IF s # << >> /\ IsSpace(s[Len(s)]) THEN RStrip(SubSeq(s, 1, Len(s) - 1)) ELSE s

\* s.strip()
Strip(s) == RStrip(LStrip(s))

\* re.sub(open + r'.*?' + close, '', s): from each open character the shortest
\* span up to a close character is removed; '.' does not match a line break
RECURSIVE RemoveSpans(_, _, _)
RemoveSpans(s, open, close) ==
  IF s = << >> THEN << >>
  ELSE LET j == IndexFrom(s, {close, NL}, 2)
       IN  IF s[1] = open /\ j # 0 /\ s[j] = close
           THEN RemoveSpans(SubSeq(s, j + 1, Len(s)), open, close)
           ELSE <<s[1]>> \o RemoveSpans(Tail(s), open, close)

\* re.sub(r'\s+', ' ', s)
RECURSIVE CollapseSpaces(_)
CollapseSpaces(s) ==
  IF s = << >> THEN << >>
  ELSE IF IsSpace(s[1])
       THEN <<" ">> \o CollapseSpaces(LStrip(s))
       ELSE <<s[1]>> \o CollapseSpaces(Tail(s))

\* CountryScraper.clean_text; text is None or <<str>>
clean_text(text) ==
  IF text = None \/ text[1] = << >> THEN None
  ELSE LET t1 == RemoveSpans(text[1], "[", "]")
           t2 == RemoveSpans(t1, "(", ")")
           t3 == ReplaceChar(t2, NL, " ")
           t4 == CollapseSpaces(t3)
       IN  Some(Strip(t4))

----------------------------------------------------------------------------
(* Bounded inputs *)

\* all sequences over S of length at most n
RECURSIVE SeqsUpTo(_, _)
SeqsUpTo(S, n) ==
  IF n = 0 THEN {<< >>}
  ELSE LET shorter == SeqsUpTo(S, n - 1)
       IN  shorter \cup {<<x>> \o s : x \in S, s \in {t \in shorter : Len(t) = n - 1}}

\* the text of test_scraper_text_cleaning
FranceText ==
  <<"F","r","a","n","c","e","[","1","]",NL," ","(","R","e","p","u","b","l","i","c",")">>

France == <<"F","r","a","n","c","e">>

MaxLen == 4

CleanChars == {"[", "]", "(", ")", NL, " ", "a"}

CleanTexts == SeqsUpTo(CleanChars, MaxLen) \cup {FranceText}

----------------------------------------------------------------------------
(* clean_text, applied once and then to its own result *)

InitDriverIdle ==
  /\ catalog = None /\ listing = None /\ links = << >> /\ neighbors_map = << >>
  /\ idx = 0 /\ all_data = << >> /\ output = None

InitRecordIdle ==
  /\ page = None /\ rowi = 0 /\ data = None /\ pre = None /\ fired = {}

InitIdle == InitDriverIdle /\ InitRecordIdle

DriverVars == <<catalog, listing, links, neighbors_map, idx, all_data, output>>

RecordVars == <<page, rowi, data, pre, fired>>

IdleVars == <<DriverVars, RecordVars>>

InitClean ==
  /\ arg \in {Some(t) : t \in CleanTexts} \cup {None}
  /\ ret = None
  /\ pc = "start"
  /\ InitIdle

CleanText ==
  /\ pc = "start"
  /\ ret' = clean_text(arg)
  /\ pc' = "cleaned"
  /\ UNCHANGED <<arg, IdleVars>>

CleanAgain ==
  /\ pc = "cleaned"
  /\ arg' = ret
  /\ ret' = clean_text(ret)
  /\ pc' = "recleaned"
  /\ UNCHANGED IdleVars

NextClean == CleanText \/ CleanAgain

SpecClean == InitClean /\ [][NextClean]_vars

\* C6: clean_text is idempotent: clean_text(clean_text(x)) = clean_text(x) for
\* every string x (after CleanAgain, arg is clean_text(x) and ret is
\* clean_text(clean_text(x)))
C6_Idempotent == pc = "recleaned" => ret = arg

HasPair(s, open, close) ==
  \E i, j \in 1..Len(s) : i < j /\ s[i] = open /\ s[j] = close

\* C7: for every non-empty input the result of clean_text holds no '[' followed
\* later by ']', no '(' followed later by ')', no line break, no run of two or
\* more whitespace characters and no leading or trailing whitespace, and the
\* text of test_scraper_text_cleaning gives exactly "France"
C7_SpansRemoved ==
  (pc = "cleaned" /\ arg # None /\ arg[1] # << >>) =>
    /\ ret # None
    /\ ~HasPair(ret[1], "[", "]")
    /\ ~HasPair(ret[1], "(", ")")
    /\ \A i \in 1..Len(ret[1]) : ret[1][i] # NL
    /\ \A i \in 1..(Len(ret[1]) - 1) : ~(IsSpace(ret[1][i]) /\ IsSpace(ret[1][i + 1]))
    /\ ret[1] = Strip(ret[1])
    /\ (arg[1] = FranceText => ret[1] = France)

----------------------------------------------------------------------------
(* parse_number and parse_float *)

Upper == <<"A","B","C","D","E","F","G","H","I","J","K","L","M",
           "N","O","P","Q","R","S","T","U","V","W","X","Y","Z">>

Lower == <<"a","b","c","d","e","f","g","h","i","j","k","l","m",
           "n","o","p","q","r","s","t","u","v","w","x","y","z">>

LowerChar(c) ==
  IF \E i \in 1..Len(Upper) : Upper[i] = c
  THEN Lower[CHOOSE i \in 1..Len(Upper) : Upper[i] = c]
  ELSE c

\* s.lower()
ToLower(s) == [i \in 1..Len(s) |-> LowerChar(s[i])]

DigitValue(c) ==
  CASE c = "0" -> 0 [] c = "1" -> 1 [] c = "2" -> 2 [] c = "3" -> 3 [] c = "4" -> 4
    [] c = "5" -> 5 [] c = "6" -> 6 [] c = "7" -> 7 [] c = "8" -> 8 [] c = "9" -> 9

\* the end of the run of digits that starts at i
RECURSIVE DigitsEnd(_, _)
DigitsEnd(s, i) ==
  IF i < Len(s) /\ IsDigit(s[i + 1]) THEN DigitsEnd(s, i + 1) ELSE i

\* re.search(r'\d+(\.\d+)?', s): None, or the integer digits and the fraction
\* digits of the first match
SearchNumeral(s) ==
  LET i == IndexFrom(s, {"0", "1", "2", "3", "4", "5", "6", "7", "8", "9"}, 1)
  IN  IF i = 0 THEN None
      ELSE LET j == DigitsEnd(s, i)
           IN  IF j + 2 <= Len(s) /\ s[j + 1] = "." /\ IsDigit(s[j + 2])
               THEN Some([int |-> SubSeq(s, i, j),
                          frac |-> SubSeq(s, j + 2, DigitsEnd(s, j + 2))])
               ELSE Some([int |-> SubSeq(s, i, j), frac |-> << >>])

\* the natural number a run of digits denotes
RECURSIVE BOfDigits(_)
BOfDigits(ds) ==
  IF ds = << >> THEN << >>
  ELSE Trim(BMulLimb(BOfDigits(SubSeq(ds, 1, Len(ds) - 1)), 10, DigitValue(ds[Len(ds)])))

\* float(match.group(...))
FloatOfNumeral(n) == FloatOfDecimal(BOfDigits(n.int \o n.frac), Len(n.frac))

billion == <<"b","i","l","l","i","o","n">>

million == <<"m","i","l","l","i","o","n">>

trillion == <<"t","r","i","l","l","i","o","n">>

\* the multiplier chosen at lines 30-37: its power of ten
MagnitudeExp(text) ==
  LET text_lower == ToLower(text)
  IN  IF Contains(text_lower, billion) THEN 9
      ELSE IF Contains(text_lower, million) THEN 6
      ELSE IF Contains(text_lower, trillion) THEN 12
      ELSE 0

\* CountryScraper.parse_number; text is None or <<str>>, the result None or <<int>>
parse_number(text) ==
  IF text = None \/ text[1] = << >> THEN None
  ELSE LET multiplier == BPow10(MagnitudeExp(text[1]))
           clean_str  == clean_text(text)[1]
           match      == SearchNumeral(RemoveChar(clean_str, ","))
       IN  IF match = None THEN None
           ELSE LET val_float == FloatOfNumeral(match[1])
                IN  Some(IntOfFloat(FMul(val_float, FloatOfInt(multiplier))))

\* CountryScraper.parse_float; text is None or <<str>>, the result None or <<float>>
parse_float(text) ==
  IF text = None \/ text[1] = << >> THEN None
  ELSE LET clean_str == clean_text(text)[1]
           match     == SearchNumeral(RemoveChar(clean_str, ","))
       IN  IF match = None THEN None ELSE Some(FloatOfNumeral(match[1]))

\* all concatenations of at most n pieces of ps
RECURSIVE Concats(_, _)
Concats(ps, n) ==
  IF n = 0 THEN {<< >>}
  ELSE LET shorter == Concats(ps, n - 1)
       IN  shorter \cup {p \o s : p \in ps, s \in shorter}

MaxPieces == 3

\* pieces of the texts of test_scraper_number_parsing ("1,234", "35 million",
\* "1.5 billion", "No Data") and of infobox cells
NumPieces ==
  { <<"1",",","2","3","4">>,
    <<"3","5">>,
    <<"1",".","5">>,
    <<"4",".","1">>,
    <<" ","m","i","l","l","i","o","n">>,
    <<" ","B","i","l","l","i","o","n">>,
    <<" ","t","r","i","l","l","i","o","n">>,
    <<"(","7",")"," ">>,
    <<"[","2","]">>,
    <<"N","o"," ","D","a","t","a">>,
    <<".">>,
    <<",">> }

NumTexts == Concats(NumPieces, MaxPieces)

InitNum ==
  /\ arg \in {Some(t) : t \in NumTexts} \cup {None}
  /\ ret = None
  /\ pc = "start"
  /\ InitIdle

ParseNumber ==
  /\ pc = "start"
  /\ ret' = parse_number(arg)
  /\ pc' = "parse_number"
  /\ UNCHANGED <<arg, IdleVars>>

ParseFloat ==
  /\ pc = "start"
  /\ ret' = parse_float(arg)
  /\ pc' = "parse_float"
  /\ UNCHANGED <<arg, IdleVars>>

NextNum == ParseNumber \/ ParseFloat

SpecNum == InitNum /\ [][NextNum]_vars

\* the first numeral of the text itself, thousands separators stripped, times
\* the magnitude factor, truncated to an integer, all in exact arithmetic
ExactMagnitude(text) ==
  LET match == SearchNumeral(RemoveChar(text, ","))
  IN  IF match = None THEN None
      ELSE Some(BDivMod(BMul(BOfDigits(match[1].int \o match[1].frac),
                             BPow10(MagnitudeExp(text))),
                        BPow10(Len(match[1].frac))).q)

\* the text holds none of the characters that open or close a span
Spanless(text) == \A i \in 1..Len(text) : text[i] \notin {"[", "]", "(", ")"}

\* C5: parse_number gives the first decimal-or-integer numeral of the text, read
\* after thousands separators are stripped, multiplied by the magnitude factor
\* (billion, else million, else trillion, else 1) and truncated to an integer;
\* it gives None when the text holds no numeral or is None or empty.  Stated
\* for the texts without a bracketed or parenthetical span, where the first
\* numeral of the text is also the first numeral of the cleaned text
C5_ParseNumber ==
  (pc = "parse_number" /\ (arg # None => Spanless(arg[1]))) =>
    ret = (IF arg = None THEN None ELSE ExactMagnitude(arg[1]))

----------------------------------------------------------------------------
(* Markup.  A table cell (td) is the sequence of its text-bearing nodes in  *)
(* document order: tag is "a" for the text of a hyperlink and "text" for    *)
(* any other text, sup tells whether the node lies inside a <sup> element,  *)
(* and text is the node's get_text() (empty for a hyperlink around an       *)
(* image).                                                                  *)

TextNode(t) == [tag |-> "text", sup |-> FALSE, text |-> t]

LinkNode(t) == [tag |-> "a", sup |-> FALSE, text |-> t]

SupNode(t) == [tag |-> "a", sup |-> TRUE, text |-> t]

\* the concatenation of a sequence of strings
RECURSIVE Concat(_)
Concat(ss) == IF ss = << >> THEN << >> ELSE ss[1] \o Concat(Tail(ss))

\* sep.join(ss)
RECURSIVE JoinWith(_, _)
JoinWith(ss, sep) ==
  IF ss = << >> THEN << >>
  ELSE IF Len(ss) = 1 THEN ss[1]
  ELSE ss[1] \o sep \o JoinWith(Tail(ss), sep)

\* s.split(c) for a character c
RECURSIVE SplitChar(_, _)
SplitChar(s, c) ==
  LET i == IndexFrom(s, {c}, 1)
  IN  IF i = 0 THEN <<s>>
      ELSE <<SubSeq(s, 1, i - 1)>> \o SplitChar(SubSeq(s, i + 1, Len(s)), c)

\* the strings of a cell: a node without text has none
Strings(td) ==
  LET nodes == SelectSeq(td, LAMBDA n : n.text # << >>)
  IN  [i \in 1..Len(nodes) |-> nodes[i].text]

\* td.get_text()
GetText(td) == Concat(Strings(td))

\* the cell after `for sup in td.find_all('sup'): sup.decompose()`
DecomposeSup(td) == SelectSeq(td, LAMBDA n : ~n.sup)

\* td.find_all('a'): the texts of the hyperlinks, those inside <sup> included
LinkTexts(td) ==
  LET as == SelectSeq(td, LAMBDA n : n.tag = "a")
  IN  [i \in 1..Len(as) |-> as[i].text]

----------------------------------------------------------------------------
(* parse_languages *)

excluded_words ==
  { <<"L","i","s","t">>,
    <<"L","i","s","t",":">>,
    <<"(","d","e"," ","f","a","c","t","o",")">>,
    <<"N","o","n","e">>,
    <<"L","a","n","g","u","a","g","e","s">>,
    <<"O","f","f","i","c","i","a","l">>,
    <<"l","o","c","a","l","l","y">>,
    <<";">>,
    <<"[","h","i","d","e","]">> }

\* CleanItem without the final strip()
CleanItemNoStrip(item) == RemoveChar(RemoveChar(item, ";"), ":")

\* item.replace(';', '').replace(':', '').strip()
CleanItem(item) == Strip(RemoveChar(RemoveChar(item, ";"), ":"))

\* the condition of lines 81-85
KeepItem(clean_item) ==
  /\ Len(clean_item) > 2
  /\ clean_item \notin excluded_words
  /\ ~Contains(clean_item, <<"L","i","s","t">>)
  /\ ~Contains(clean_item, <<"l","o","c","a","l","l","y">>)
  /\ ~IsDigit(clean_item[1])

\* langs, the list built at lines 75-87
Langs(td) ==
  LET text  == JoinWith(Strings(DecomposeSup(td)), <<"|">>)
      items == SplitChar(text, "|")
      clean == [i \in 1..Len(items) |-> CleanItem(items[i])]
  IN  SelectSeq(clean, KeepItem)

SeqRange(s) == {s[i] : i \in 1..Len(s)}

\* the orders in which a set may be iterated
Orders(S) ==
  {p \in [1..Cardinality(S) -> S] : \A i, j \in 1..Cardinality(S) : p[i] = p[j] => i = j}

\* CountryScraper.parse_languages: the strings ", ".join(list(set(langs))) may
\* be, one for each order in which the set can be iterated
parse_languages(td) ==
  {JoinWith(p, <<",", " ">>) : p \in Orders(SeqRange(Langs(td)))}

English == <<"E","n","g","l","i","s","h">>

French == <<"F","r","e","n","c","h">>

LangNodes ==
  { TextNode(English),
    TextNode(French),
    LinkNode(English),
    TextNode(<<"[","h","i","d","e","]">>),
    TextNode(<<"L","i","s","t">>),
    TextNode(<<" ","(","d","e"," ","f","a","c","t","o",")",";">>),
    TextNode(<<"R","e","c","o","g","n","i","s","e","d",":"," ","M","a","o","r","i">>),
    TextNode(<<"2"," ","o","t","h","e","r","s">>),
    TextNode(<<"F","r","|","E","n","g","l","i","s","h">>),
    SupNode(<<"[","1","]">>),
    SupNode(French) }

MaxNodes == 3

LangCells == SeqsUpTo(LangNodes, MaxNodes)

InitLang ==
  /\ arg \in LangCells
  /\ ret = None
  /\ pc = "start"
  /\ InitIdle

ParseLanguages ==
  /\ pc = "start"
  /\ ret' \in {Some(r) : r \in parse_languages(arg)}
  /\ pc' = "parse_languages"
  /\ UNCHANGED <<arg, IdleVars>>

NextLang == ParseLanguages

SpecLang == InitLang /\ [][NextLang]_vars

\* a token with its leading and trailing ';', ':' and whitespace stripped
RECURSIVE StripEnds(_)
StripEnds(s) ==
  IF s = << >> THEN s
  ELSE IF IsSpace(s[1]) \/ s[1] \in {";", ":"} THEN StripEnds(Tail(s))
  ELSE IF IsSpace(s[Len(s)]) \/ s[Len(s)] \in {";", ":"}
       THEN StripEnds(SubSeq(s, 1, Len(s) - 1))
  ELSE s

\* a token with every ';' and ':' removed and the whitespace at its ends stripped
NoPunct(s) == Strip(SelectSeq(s, LAMBDA c : c \notin {";", ":"}))

\* the delimiter-separated tokens of the text of a cell, footnotes left out
CellTokens(td) ==
  LET strs == [i \in 1..Len(DecomposeSup(td)) |-> DecomposeSup(td)[i].text]
  IN  UNION {SeqRange(SplitChar(strs[i], "|")) : i \in 1..Len(strs)}

Boilerplate(t) ==
  \/ Len(t) <= 2
  \/ t \in excluded_words
  \/ Contains(t, <<"L", "i", "s", "t">>)
  \/ Contains(t, <<"l", "o", "c", "a", "l", "l", "y">>)
  \/ IsDigit(t[1])

\* ret is the ", "-join of the names of a set, each once, in some order
JoinsExactly(names) ==
  \E p \in Orders(names) : ret = Some(JoinWith(p, <<",", " ">>))

\* C8 as stated: the names joined in the result of parse_languages are exactly
\* the tokens of the cell that, with leading and trailing ';', ':' and
\* whitespace stripped, are no boilerplate, and no name appears twice
C8_StripEnds ==
  pc = "parse_languages" =>
    JoinsExactly({t \in {StripEnds(x) : x \in CellTokens(arg)} : ~Boilerplate(t)})

\* C8 amended: the names joined in the result of parse_languages are exactly
\* the tokens of the cell that, with every ';' and ':' removed (wherever it
\* stands) and the whitespace at their ends stripped, have more than 2
\* characters, are not in the exclusion list, contain neither 'List' nor
\* 'locally' and do not start with a digit, and no name appears twice
C8_Languages ==
  pc = "parse_languages" =>
    JoinsExactly({t \in {NoPunct(x) : x \in CellTokens(arg)} : ~Boilerplate(t)})

\* a cell with a repeated name and a name with a ':' inside, parsed
C8_Witness ==
  /\ pc = "parse_languages"
  /\ arg = <<TextNode(English), LinkNode(English),
             TextNode(<<"R","e","c","o","g","n","i","s","e","d",":"," ","M","a","o","r","i">>)>>
  /\ ret = Some(<<"R","e","c","o","g","n","i","s","e","d"," ","M","a","o","r","i">> \o <<",", " ">> \o English)

----------------------------------------------------------------------------
(* get_country_data.  A response is [fetch, status, infobox, fn_org, h1,     *)
(* rows]: fetch is "error" when requests.get raises; infobox tells whether   *)
(* the page has a table of class infobox; fn_org is the text of the infobox's*)
(* 'fn org' div and h1 the text of the page's h1, None when the element is   *)
(* absent; rows are the infobox's tr elements, each [th, td] with the text   *)
(* of its first th and the nodes of its first td, None when it has none.     *)

W_capital == <<"c","a","p","i","t","a","l">>

W_government == <<"g","o","v","e","r","n","m","e","n","t">>

W_transitional == <<"t","r","a","n","s","i","t","i","o","n","a","l">>

W_population == <<"p","o","p","u","l","a","t","i","o","n">>

W_estimate == <<"e","s","t","i","m","a","t","e">>

W_census == <<"c","e","n","s","u","s">>

W_density == <<"d","e","n","s","i","t","y">>

W_area == <<"a","r","e","a">>

W_total == <<"t","o","t","a","l">>

W_km == <<"k","m">>

W_officiallanguage == <<"o","f","f","i","c","i","a","l","l","a","n","g","u","a","g","e">>

W_officialandnational == <<"o","f","f","i","c","i","a","l","a","n","d","n","a","t","i","o","n","a","l">>

W_nationallanguage == <<"n","a","t","i","o","n","a","l","l","a","n","g","u","a","g","e">>

W_timezone == <<"t","i","m","e","z","o","n","e">>

IsLowerLetter(c) == \E i \in 1..Len(Lower) : Lower[i] = c

\* re.sub(r'[^a-z]', '', th.get_text().lower())
HeaderClean(th) == SelectSeq(ToLower(th), IsLowerLetter)

\* `not x` for a str-or-None x
Falsy(x) == x = None \/ x[1] = << >>

\* data as created at lines 177-187; neighbors and language are kept as the
\* sets whose elements the code lists in the order of a set's iteration
NewData ==
  [name |-> Some(<< >>), capital |-> None, population |-> None,
   area_in_km2 |-> None, density |-> None, neighbors |-> {},
   language |-> None, timezone |-> None, political_system |-> None]

\* ResolveName falling back to the heading when the marker's text is empty
ResolveNameHeadingFallback(p) ==
  IF p.fn_org # None /\ ~Falsy(clean_text(p.fn_org)) THEN clean_text(p.fn_org)
  ELSE IF p.h1 # None THEN clean_text(p.h1)
  ELSE Some(<< >>)

\* lines 189-195: data['name']
ResolveName(p) ==
  IF p.fn_org # None THEN clean_text(p.fn_org)
  ELSE IF p.h1 # None THEN clean_text(p.h1)
  ELSE Some(<< >>)

\* the first index from i on whose key is non-empty and contains name or is
\* contained in it, or 0
RECURSIVE FuzzyIndex(_, _, _)
FuzzyIndex(name, nmap, i) ==
  IF i > Len(nmap) THEN 0
  ELSE IF /\ ~Falsy(nmap[i].k)
          /\ (Contains(nmap[i].k[1], name) \/ Contains(name, nmap[i].k[1]))
       THEN i
       ELSE FuzzyIndex(name, nmap, i + 1)

\* ResolveNeighbors without the test for an exact key: the first matching key
ResolveNeighborsFirstMatch(name, nmap) ==
  LET i == FuzzyIndex(name, nmap, 1)
  IN  IF i = 0 THEN {} ELSE nmap[i].v

\* lines 201-208: data['neighbors'] for a non-empty name
ResolveNeighbors(name, nmap) ==
  IF \E i \in 1..Len(nmap) : nmap[i].k = Some(name)
  THEN nmap[CHOOSE i \in 1..Len(nmap) : nmap[i].k = Some(name)].v
  ELSE LET i == FuzzyIndex(name, nmap, 1)
       IN  IF i = 0 THEN {} ELSE nmap[i].v

\* lines 158-208: None when get_country_data returns None before the rows,
\* else data as it enters the loop over the rows
BeginRecord(p, nmap) ==
  IF p.fetch = "error" THEN None
  ELSE IF p.status # 200 THEN None
  ELSE IF ~p.infobox THEN None
  ELSE LET name == ResolveName(p)
       IN  IF Falsy(name) THEN None
           ELSE Some([NewData EXCEPT !.name = name,
                                     !.neighbors = ResolveNeighbors(name[1], nmap)])

\* lines 230-233 raise IndexError: a.get_text()[0] of a hyperlink without text
RowRaises(d, row) ==
  LET header_clean == HeaderClean(row.th[1])
  IN  /\ Contains(header_clean, W_government)
      /\ ~Contains(header_clean, W_transitional)
      /\ d.political_system = None
      /\ \E i \in 1..Len(LinkTexts(row.td[1])) : LinkTexts(row.td[1])[i] = << >>

\* lines 219-223
SetCapital(d, header_clean, td) ==
  IF Contains(header_clean, W_capital)
  THEN IF LinkTexts(td) # << >>
       THEN [d EXCEPT !.capital = Some(LinkTexts(td)[1])]
       ELSE [d EXCEPT !.capital = clean_text(Some(SplitChar(GetText(td), ";")[1]))]
  ELSE d

\* lines 226-241, when no hyperlink of the cell is without text
SetPoliticalSystem(d, header_clean, td) ==
  IF /\ Contains(header_clean, W_government)
     /\ ~Contains(header_clean, W_transitional)
     /\ d.political_system = None
  THEN LET valid_links ==
             SelectSeq(LinkTexts(td),
                       LAMBDA t : ~StartsWith(t, <<"[">>) /\ ~IsDigit(t[1]))
           text == clean_text(Some(GetText(td)))
       IN  IF valid_links # << >>
           THEN [d EXCEPT !.political_system = Some(JoinWith(valid_links, <<",", " ">>))]
           ELSE IF ~Falsy(text) /\ ~IsDigit(text[1][1])
                THEN [d EXCEPT !.political_system = text]
                ELSE d
  ELSE d

\* SetPopulation without the test that population is still None
SetPopulationLastWins(d, header_clean, td) ==
  IF \/ Contains(header_clean, W_population)
     \/ Contains(header_clean, W_estimate)
     \/ Contains(header_clean, W_census)
  THEN [d EXCEPT !.population = parse_number(Some(GetText(td)))]
  ELSE d

\* lines 244-246
SetPopulation(d, header_clean, td) ==
  IF /\ \/ Contains(header_clean, W_population)
        \/ Contains(header_clean, W_estimate)
        \/ Contains(header_clean, W_census)
     /\ d.population = None
  THEN [d EXCEPT !.population = parse_number(Some(GetText(td)))]
  ELSE d

\* lines 249-250
SetDensity(d, header_clean, td) ==
  IF Contains(header_clean, W_density)
  THEN [d EXCEPT !.density = parse_float(Some(GetText(td)))]
  ELSE d

\* lines 253-257
SetArea(d, header_clean, td) ==
  LET is_area     == Contains(header_clean, W_area)
      is_total_km == /\ Contains(header_clean, W_total)
                     /\ Contains(ToLower(GetText(td)), W_km)
  IN  IF (is_area \/ is_total_km) /\ d.area_in_km2 = None
      THEN [d EXCEPT !.area_in_km2 = parse_number(Some(GetText(td)))]
      ELSE d

IsLanguageRow(header_clean) ==
  \/ Contains(header_clean, W_officiallanguage)
  \/ Contains(header_clean, W_officialandnational)
  \/ Contains(header_clean, W_nationallanguage)

\* lines 260-261
SetLanguage(d, header_clean, td) ==
  IF IsLanguageRow(header_clean)
  THEN [d EXCEPT !.language = Some(SeqRange(Langs(td)))]
  ELSE d

\* re.split(r'[\[\(]', raw_text)[0]
BeforeBracket(raw_text) ==
  LET i == IndexFrom(raw_text, {"[", "("}, 1)
  IN  IF i = 0 THEN raw_text ELSE SubSeq(raw_text, 1, i - 1)

\* lines 264-268; parse_languages has removed the cell's <sup> elements
SetTimezone(d, header_clean, td) ==
  LET cell == IF IsLanguageRow(header_clean) THEN DecomposeSup(td) ELSE td
  IN  IF Contains(header_clean, W_timezone)
      THEN [d EXCEPT !.timezone = clean_text(Some(BeforeBracket(GetText(cell))))]
      ELSE d

\* lines 216-268 for a row with a th and a td that does not raise
Classify(d, row) ==
  LET header_clean == HeaderClean(row.th[1])
      td == row.td[1]
  IN  SetTimezone(
        SetLanguage(
          SetArea(
            SetDensity(
              SetPopulation(
                SetPoliticalSystem(
                  SetCapital(d, header_clean, td),
                  header_clean, td),
                header_clean, td),
              header_clean, td),
            header_clean, td),
          header_clean, td),
        header_clean, td)

\* lines 270-276
DeriveDensity(d) ==
  IF /\ d.density = None
     /\ d.population # None /\ d.area_in_km2 # None
     /\ d.area_in_km2[1] # << >>
  THEN LET calculated_density == RoundRatio(d.population[1], d.area_in_km2[1])
       IN  [d EXCEPT !.density = Some(RoundOneDecimal(calculated_density))]
  ELSE d

\* lines 278-283
DeriveArea(d) ==
  IF /\ d.area_in_km2 = None
     /\ d.population # None /\ d.density # None
     /\ d.density[1] # FZero
  THEN LET val == FDiv(FloatOfInt(d.population[1]), d.density[1])
       IN  [d EXCEPT !.area_in_km2 = Some(IntOfFloat(val))]
  ELSE d

\* lines 270-283: the derived-field step
DerivedStep(d) == DeriveArea(DeriveDensity(d))

\* line 214: the row is skipped
SkipsRow(row) == row.th = None \/ row.td = None

\* lines 211-283 from row i on: [raised, data]
RECURSIVE RowsLoop(_, _, _)
RowsLoop(d, trs, i) ==
  IF i > Len(trs) THEN [raised |-> FALSE, data |-> d]
  ELSE IF SkipsRow(trs[i]) THEN RowsLoop(d, trs, i + 1)
  ELSE IF RowRaises(d, trs[i]) THEN [raised |-> TRUE, data |-> d]
  ELSE RowsLoop(DerivedStep(Classify(d, trs[i])), trs, i + 1)

\* CountryScraper.get_country_data: [raised, value], value None or <<data>>
get_country_data(p, nmap) ==
  LET begun == BeginRecord(p, nmap)
  IN  IF begun = None THEN [raised |-> FALSE, value |-> None]
      ELSE LET r == RowsLoop(begun[1], p.rows, 1)
           IN  [raised |-> r.raised, value |-> IF r.raised THEN None ELSE Some(r.data)]

----------------------------------------------------------------------------
(* The assembly of one record, row by row *)

RowPopulation1000 ==
  [th |-> Some(<<"P","o","p","u","l","a","t","i","o","n">>), td |-> Some(<<TextNode(<<"1","0","0","0">>)>>)]

RowEstimate33 ==
  [th |-> Some(<<"2","0","2","0"," ","e","s","t","i","m","a","t","e">>), td |-> Some(<<TextNode(<<"3","3">>)>>)]

RowPopulationNoData ==
  [th |-> Some(<<"P","o","p","u","l","a","t","i","o","n">>), td |-> Some(<<TextNode(<<"N","o"," ","D","a","t","a">>)>>)]

RowDensity100 ==
  [th |-> Some(<<"D","e","n","s","i","t","y">>), td |-> Some(<<TextNode(<<"1","0","0",".","0">>)>>)]

RowDensity11 ==
  [th |-> Some(<<"D","e","n","s","i","t","y">>), td |-> Some(<<TextNode(<<"1",".","1">>)>>)]

RowDensityNoData ==
  [th |-> Some(<<"D","e","n","s","i","t","y">>), td |-> Some(<<TextNode(<<"N","o"," ","D","a","t","a">>)>>)]

RowDensity0 ==
  [th |-> Some(<<"D","e","n","s","i","t","y">>), td |-> Some(<<TextNode(<<"0">>)>>)]

RowArea10 ==
  [th |-> Some(<<"A","r","e","a">>), td |-> Some(<<TextNode(<<"1","0">>)>>)]

RowTotal20 ==
  [th |-> Some(<<"-"," ","T","o","t","a","l">>), td |-> Some(<<TextNode(<<"2","0"," ","k","m","2">>)>>)]

RowArea0 ==
  [th |-> Some(<<"A","r","e","a">>), td |-> Some(<<TextNode(<<"0">>)>>)]

RowGovernment ==
  [th |-> Some(<<"G","o","v","e","r","n","m","e","n","t">>), td |-> Some(<<LinkNode(<<"R","e","p","u","b","l","i","c">>), SupNode(<<"[","1","]">>)>>)]

RowGovernmentImage ==
  [th |-> Some(<<"G","o","v","e","r","n","m","e","n","t">>), td |-> Some(<<LinkNode(<< >>), TextNode(<<"M","o","n","a","r","c","h","y">>)>>)]

RowCapital ==
  [th |-> Some(<<"C","a","p","i","t","a","l">>), td |-> Some(<<LinkNode(<<"P","a","r","i","s">>)>>)]

RowLanguages ==
  [th |-> Some(<<"O","f","f","i","c","i","a","l"," ","l","a","n","g","u","a","g","e","s">>), td |-> Some(<<TextNode(English), SupNode(<<"[","1","]">>)>>)]

RowTimezone ==
  [th |-> Some(<<"T","i","m","e"," ","z","o","n","e">>), td |-> Some(<<TextNode(<<"U","T","C","+","1"," ","(","C","E","T",")">>)>>)]

RowNoHeader ==
  [th |-> None, td |-> Some(<<TextNode(<<"1","0","0","0">>)>>)]

InfoboxRows ==
  { RowPopulation1000,
    RowEstimate33,
    RowPopulationNoData,
    RowDensity100,
    RowDensity11,
    RowDensityNoData,
    RowDensity0,
    RowArea10,
    RowTotal20,
    RowArea0,
    RowGovernment,
    RowGovernmentImage,
    RowCapital,
    RowLanguages,
    RowTimezone,
    RowNoHeader }

MaxRows == 3

OkPage(fn_org, h1, trs) ==
  [fetch |-> "ok", status |-> 200, infobox |-> TRUE,
   fn_org |-> fn_org, h1 |-> h1, rows |-> trs]

RecordPages ==
  {OkPage(Some(France), None, trs) : trs \in SeqsUpTo(InfoboxRows, MaxRows)}
    \cup {OkPage(None, None, << >>)}

InitRecord ==
  /\ page \in {Some(p) : p \in RecordPages}
  /\ rowi = 0 /\ data = None /\ pre = None /\ fired = {}
  /\ arg = None /\ ret = None /\ pc = "start"
  /\ InitDriverIdle

\* lines 158-208
FetchPage ==
  /\ pc = "start"
  /\ LET begun == BeginRecord(page[1], neighbors_map)
     IN  IF begun = None
         THEN /\ pc' = "returned"
              /\ UNCHANGED <<data, rowi>>
         ELSE /\ pc' = "rows"
              /\ data' = begun
              /\ rowi' = 1
  /\ UNCHANGED <<arg, ret, page, pre, fired, DriverVars>>

\* one iteration of the loop of lines 211-283
RowStep ==
  /\ pc = "rows"
  /\ rowi <= Len(page[1].rows)
  /\ LET tr == page[1].rows[rowi]
     IN  IF SkipsRow(tr)
         THEN /\ rowi' = rowi + 1
              /\ UNCHANGED <<pc, data, pre, fired>>
         ELSE IF RowRaises(data[1], tr)
         THEN /\ pc' = "raised"
              /\ UNCHANGED <<rowi, data, pre, fired>>
         ELSE \E c \in {Classify(data[1], tr)} : \E d \in {DerivedStep(c)} :
                  /\ pre' = Some(c)
                  /\ data' = Some(d)
                  /\ fired' = fired
                       \cup (IF c.density = None /\ d.density # None
                             THEN {"density"} ELSE {})
                       \cup (IF c.area_in_km2 = None /\ d.area_in_km2 # None
                             THEN {"area"} ELSE {})
                  /\ rowi' = rowi + 1
                  /\ pc' = pc
  /\ UNCHANGED <<arg, ret, page, DriverVars>>

\* line 284
ReturnData ==
  /\ pc = "rows"
  /\ rowi > Len(page[1].rows)
  /\ ret' = data
  /\ pc' = "returned"
  /\ UNCHANGED <<arg, page, rowi, data, pre, fired, DriverVars>>

NextRecord == FetchPage \/ RowStep \/ ReturnData

SpecRecord == InitRecord /\ [][NextRecord]_vars

\* |a - b|
BDist(a, b) == IF BLess(a, b) THEN BSub(b, a) ELSE BSub(a, b)

\* x is the float of a numeral with one decimal that lies within 0.05 of p / a
IsRoundedQuotient(x, p, a) ==
  LET tenths == TenthsOf(x)
      dist   == BDist(BMul(tenths, a), Trim(BMulLimb(p, 10, 0)))
  IN  x = FloatOfDecimal(tenths, 1) /\ BLeq(BAdd(dist, dist), a)

\* the numeral of the last density row among rows 1..i
RECURSIVE DensityNumeral(_, _)
DensityNumeral(trs, i) ==
  IF i = 0 THEN None
  ELSE IF ~SkipsRow(trs[i]) /\ Contains(HeaderClean(trs[i].th[1]), W_density)
       THEN SearchNumeral(RemoveChar(clean_text(Some(GetText(trs[i].td[1])))[1], ","))
       ELSE DensityNumeral(trs, i - 1)

\* floor(p / n) for a natural p and a numeral n
FloorQuotient(p, n) ==
  BDivMod(BMul(p, BPow10(Len(n.frac))), BOfDigits(n.int \o n.frac)).q

\* C3: the derived-field step sets a null density to population / area rounded
\* to one decimal when population and area are there and area > 0; it sets a
\* null area to the integer truncation of population / density when population
\* and density are there and density > 0; it changes neither when both are
\* there, and derives nothing when the divisor is 0 or population is null
C3_DerivedFieldLaw ==
  (pc \in {"rows", "returned"} /\ pre # None) =>
    LET b == pre[1]
        d == data[1]
        p == b.population
        a == b.area_in_km2
        x == b.density
    IN  /\ d.population = p
        /\ IF x = None /\ p # None /\ a # None /\ a[1] # << >>
           THEN /\ d.area_in_km2 = a
                /\ d.density # None
                /\ IsRoundedQuotient(d.density[1], p[1], a[1])
           ELSE IF a = None /\ p # None /\ x # None /\ x[1] # FZero
           THEN /\ d.density = x
                /\ d.area_in_km2 =
                     Some(FloorQuotient(p[1], DensityNumeral(page[1].rows, rowi - 1)[1]))
           ELSE d.area_in_km2 = a /\ d.density = x

\* lines 216-268 for every row, with no derived-field step in between
RECURSIVE ClassifyAll(_, _, _)
ClassifyAll(d, trs, i) ==
  IF i > Len(trs) THEN d
  ELSE IF SkipsRow(trs[i]) THEN ClassifyAll(d, trs, i + 1)
  ELSE ClassifyAll(Classify(d, trs[i]), trs, i + 1)

\* C9: the derived-field step runs once, after all rows: the final population,
\* area and density are those obtained by applying every row's classification
\* rules first and the derived-field step once afterwards
C9_DerivedOnceAfterRows ==
  (pc = "returned" /\ ret # None) =>
    LET once == DerivedStep(ClassifyAll(BeginRecord(page[1], neighbors_map)[1],
                                        page[1].rows, 1))
    IN  /\ ret[1].population = once.population
        /\ ret[1].area_in_km2 = once.area_in_km2
        /\ ret[1].density = once.density

\* C10: the assembly of one record never computes both a derived area and a
\* derived density
C10_AtMostOneDerivation == ~({"area", "density"} \subseteq fired)

\* C11: for a page that was fetched with an infobox and a name, whatever its
\* rows hold, the processing of the rows never raises and get_country_data
\* returns a record
C11_RowsNeverRaise ==
  /\ pc # "raised"
  /\ (pc = "returned" /\ BeginRecord(page[1], neighbors_map) # None) => ret # None

\* the fields that are assigned only while they are None
WriteOnceFields == {"population", "area_in_km2", "political_system"}

\* the magnitude-parse of the first row from i on that has a th and a td, is
\* labelled population, estimate or census and whose cell yields a numeral
RECURSIVE FirstPopulation(_, _)
FirstPopulation(trs, i) ==
  IF i > Len(trs) THEN None
  ELSE LET label == IF trs[i].th = None THEN << >> ELSE HeaderClean(trs[i].th[1])
           value == IF trs[i].td = None THEN None
                    ELSE parse_number(Some(GetText(trs[i].td[1])))
       IN  IF /\ trs[i].th # None
              /\ \/ Contains(label, W_population)
                 \/ Contains(label, W_estimate)
                 \/ Contains(label, W_census)
              /\ value # None
           THEN value
           ELSE FirstPopulation(trs, i + 1)

\* C13: once population, area or political_system holds a value, no later row
\* and no later derived-field step changes it; the population of the record
\* returned is the magnitude-parse of the first row labelled population,
\* estimate or census whose cell yields a numeral
C13_WriteOnce ==
  [][ /\ (data # None /\ data' # None) =>
           \A f \in WriteOnceFields :
             data[1][f] # None => data'[1][f] = data[1][f]
      /\ (data # None /\ pre' # None /\ pre' # pre) =>
           \A f \in WriteOnceFields :
             data[1][f] # None => pre'[1][f] = data[1][f]
      /\ (pc' = "returned" /\ ret' # None) =>
           ret'[1].population = FirstPopulation(page[1].rows, 1) ]_vars

\* a record returned with the population of the second row: the first yields
\* no numeral and the third is ignored
C13_Witness ==
  /\ pc = "returned"
  /\ ret # None
  /\ page[1].rows = <<RowPopulationNoData, RowPopulation1000, RowEstimate33>>
  /\ ret[1].population = Some(BFromInt(1000))

----------------------------------------------------------------------------
(* The land-borders listing and build_neighbors_map *)

\* <a href=href>text</a>; page is the response a request for href gets
Anchor(text, href) == [text |-> text, href |-> href]

\* a <tr> of the listing: its number of cells, the text of the first hyperlink
\* of its first cell (None without one), the hyperlinks of its last cell
ListingRow(ncells, country_link, neighbor_links) ==
  [ncells |-> ncells, country_link |-> country_link, neighbor_links |-> neighbor_links]

\* lines 135-145: the names kept from the hyperlinks of the last cell
NeighborsList(neighbor_links) ==
  { Strip(neighbor_links[i].text) : i \in
      { j \in 1..Len(neighbor_links) :
          LET n_name == Strip(neighbor_links[j].text)
              n_href == neighbor_links[j].href
          IN  /\ n_name # << >>
              /\ Len(n_name) > 2
              /\ Contains(n_href, <<"/","w","i","k","i","/">>)
              /\ ~StartsWith(n_name, <<"[">>) } }

\* self.neighbors_map[k] = v: a key that is there keeps its place
SetItem(nmap, k, v) ==
  IF \E i \in 1..Len(nmap) : nmap[i].k = k
  THEN [i \in 1..Len(nmap) |-> IF nmap[i].k = k THEN [k |-> k, v |-> v] ELSE nmap[i]]
  ELSE Append(nmap, [k |-> k, v |-> v])

\* lines 114-148 from row i on
RECURSIVE MapFromRows(_, _, _)
MapFromRows(nmap, rows, i) ==
  IF i > Len(rows) THEN nmap
  ELSE LET tr == rows[i]
       IN  IF tr.ncells < 4 THEN MapFromRows(nmap, rows, i + 1)
           ELSE IF tr.country_link = None THEN MapFromRows(nmap, rows, i + 1)
           ELSE MapFromRows(SetItem(nmap, clean_text(tr.country_link),
                                    NeighborsList(tr.neighbor_links)),
                            rows, i + 1)

\* CountryScraper.build_neighbors_map: self.neighbors_map when it returns;
\* rows[1:] leaves the header row out
build_neighbors_map(l) ==
  IF l.fetch = "error" THEN << >>
  ELSE IF ~l.table THEN << >>
  ELSE MapFromRows(<< >>, l.rows, 2)

----------------------------------------------------------------------------
(* The catalog of sovereign states and get_all_country_links *)

\* lines 331-335
Acceptable(href) ==
  /\ ~Falsy(href)
  /\ StartsWith(href[1], <<"/","w","i","k","i","/">>)
  /\ ~Contains(href[1], <<"F","i","l","e",":">>)
  /\ ~Contains(href[1], <<"c","i","t","e","_","n","o","t","e">>)
  /\ ~Contains(href[1], <<"H","e","l","p",":">>)

\* lines 326-337: the first acceptable hyperlink from i on, or None
RECURSIVE FirstAcceptable(_, _)
FirstAcceptable(as, i) ==
  IF i > Len(as) THEN None
  ELSE IF Acceptable(as[i].href) THEN Some(as[i])
  ELSE FirstAcceptable(as, i + 1)

\* lines 321-337 from row i on
RECURSIVE CountryLinks(_, _)
CountryLinks(rows, i) ==
  IF i > Len(rows) THEN << >>
  ELSE IF ~rows[i].td THEN CountryLinks(rows, i + 1)
  ELSE FirstAcceptable(rows[i].links, 1) \o CountryLinks(rows, i + 1)

\* CountryScraper.get_all_country_links
get_all_country_links(c) ==
  IF c.fetch = "error" THEN << >>
  ELSE IF ~c.table THEN << >>
  ELSE CountryLinks(c.rows, 1)

----------------------------------------------------------------------------
(* The batch driver *)

Niger == <<"N","i","g","e","r">>

Nigeria == <<"N","i","g","e","r","i","a">>

Chad == <<"C","h","a","d">>

HeaderRow == ListingRow(5, None, << >>)

RowNigeria ==
  ListingRow(5, Some(Nigeria),
             <<Anchor(<<"B","e","n","i","n">>, <<"/","w","i","k","i","/","B","e","n","i","n">>), Anchor(<<"[","1","]">>, <<"#","c","i","t","e","_","n","o","t","e","-","1">>)>>)

RowNiger ==
  ListingRow(5, Some(Niger),
             <<Anchor(<<" ","C","h","a","d">>, <<"/","w","i","k","i","/","C","h","a","d">>), Anchor(<<"C","h","a","d">>, <<"/","w","i","k","i","/","C","h","a","d">>)>>)

RowNigerAgain ==
  ListingRow(4, Some(<<"N","i","g","e","r","[","a","]">>), <<Anchor(<<"M","a","l","i">>, <<"/","w","i","k","i","/","M","a","l","i">>)>>)

RowFootnote ==
  ListingRow(5, Some(<<"[","1","]">>), <<Anchor(<<"L","i","b","y","a">>, <<"/","w","i","k","i","/","L","i","b","y","a">>)>>)

RowShort ==
  ListingRow(3, Some(Chad), <<Anchor(<<"S","u","d","a","n">>, <<"/","w","i","k","i","/","S","u","d","a","n">>)>>)

RowNoLink ==
  ListingRow(5, None, <<Anchor(<<"T","o","g","o">>, <<"/","w","i","k","i","/","T","o","g","o">>)>>)

ListingRows == {RowNigeria, RowNiger, RowNigerAgain, RowFootnote, RowShort, RowNoLink}

MaxListingRows == 2

\* no element occurs twice in s
NoRepeat(s) == \A i, j \in 1..Len(s) : s[i] = s[j] => i = j

\* the listing's table holds no row twice (RowNiger and RowNigerAgain are two
\* rows for one country)
Listings ==
  { [fetch |-> "ok", table |-> TRUE, rows |-> <<HeaderRow>> \o trs] :
      trs \in {t \in SeqsUpTo(ListingRows, MaxListingRows) : NoRepeat(t)} }
    \cup { [fetch |-> "error", table |-> FALSE, rows |-> << >>],
           [fetch |-> "ok", table |-> FALSE, rows |-> << >>] }

PageTransportFailure ==
  [fetch |-> "error", status |-> 0, infobox |-> FALSE,
   fn_org |-> None, h1 |-> None, rows |-> << >>]

PageNotFound ==
  [fetch |-> "ok", status |-> 404, infobox |-> FALSE,
   fn_org |-> None, h1 |-> Some(Chad), rows |-> << >>]

PageNoInfobox ==
  [fetch |-> "ok", status |-> 200, infobox |-> FALSE,
   fn_org |-> None, h1 |-> Some(Chad), rows |-> << >>]

PageNiger == OkPage(Some(Niger), Some(Niger), <<RowCapital>>)

PageNigeria == OkPage(None, Some(<<"N","i","g","e","r","i","a","[","1","]">>), << >>)

PageEmptyMarker == OkPage(Some(<< >>), Some(Chad), <<RowCapital>>)

PageHeadingEmpty == OkPage(None, Some(<<"[","1","]">>), << >>)

PageNoHeading == OkPage(None, None, << >>)

PageGovernmentImage == OkPage(Some(Chad), None, <<RowGovernmentImage>>)

DriverPages ==
  { PageTransportFailure, PageNotFound, PageNoInfobox, PageNiger, PageNigeria,
    PageEmptyMarker, PageHeadingEmpty, PageNoHeading, PageGovernmentImage }

\* a hyperlink of the catalog with the response a request for it gets
Ref(href, p) == [href |-> href, page |-> p]

\* a row for each page but PageNiger, a row without a cell, a row whose
\* hyperlinks are all passed over, and a row whose first acceptable hyperlink
\* (to PageNiger) comes second
CatalogRows ==
  { [td |-> TRUE, links |-> <<Ref(Some(<<"/","w","i","k","i","/","S","t","a","t","e">>), p)>>] :
      p \in DriverPages \ {PageNiger} }
    \cup { [td |-> FALSE, links |-> << >>],
           [td |-> TRUE,
            links |-> <<Ref(None, PageNoInfobox),
                        Ref(Some(<<"/","w","i","k","i","/","F","i","l","e",":","F","l","a","g",".","s","v","g">>), PageNoInfobox)>>],
           [td |-> TRUE,
            links |-> <<Ref(Some(<<"/","w","i","k","i","/","H","e","l","p",":","C","o","n","t","e","n","t","s">>), PageNoInfobox),
                        Ref(Some(<<"/","w","i","k","i","/","N","i","g","e","r">>), PageNiger),
                        Ref(Some(<<"/","w","i","k","i","/","N","i","g","e","r","i","a">>), PageNigeria)>>] }

MaxLinks == 2

Catalogs ==
  { [fetch |-> "ok", table |-> TRUE, rows |-> trs] :
      trs \in SeqsUpTo(CatalogRows, MaxLinks) }
    \cup { [fetch |-> "error", table |-> FALSE, rows |-> << >>],
           [fetch |-> "ok", table |-> FALSE, rows |-> << >>] }

Init ==
  /\ listing \in {Some(l) : l \in Listings}
  /\ catalog \in {Some(c) : c \in Catalogs}
  /\ links = << >> /\ neighbors_map = << >>
  /\ idx = 0 /\ all_data = << >> /\ output = None
  /\ arg = None /\ ret = None /\ pc = "start"
  /\ InitRecordIdle

\* line 347
BuildNeighborsMap ==
  /\ pc = "start"
  /\ neighbors_map' = build_neighbors_map(listing[1])
  /\ pc' = "links"
  /\ UNCHANGED <<arg, ret, catalog, listing, links, idx, all_data, output, RecordVars>>

\* line 350
GetAllCountryLinks ==
  /\ pc = "links"
  /\ links' = get_all_country_links(catalog[1])
  /\ pc' = "scraping"
  /\ UNCHANGED <<arg, ret, catalog, listing, neighbors_map, idx, all_data, output,
                 RecordVars>>

\* ScrapeNext with a get_country_data that stores the neighbors it resolved
\* for the record's name in the map
ScrapeNextStoresMatch ==
  /\ pc = "scraping"
  /\ idx < Len(links)
  /\ \E c_data \in {get_country_data(links[idx + 1].page, neighbors_map)} :
         IF c_data.raised
         THEN /\ pc' = "crashed"
              /\ UNCHANGED <<ret, idx, all_data, neighbors_map>>
         ELSE /\ ret' = c_data.value
              /\ all_data' = IF c_data.value # None /\ ~Falsy(c_data.value[1].name)
                             THEN Append(all_data, c_data.value[1])
                             ELSE all_data
              /\ neighbors_map' =
                   IF c_data.value # None
                   THEN SetItem(neighbors_map, c_data.value[1].name,
                                c_data.value[1].neighbors)
                   ELSE neighbors_map
              /\ idx' = idx + 1
              /\ pc' = pc
  /\ UNCHANGED <<arg, catalog, listing, links, output, RecordVars>>

\* lines 356-361: one iteration of the loop; an exception that leaves
\* get_country_data ends the program
ScrapeNext ==
  /\ pc = "scraping"
  /\ idx < Len(links)
  /\ \E c_data \in {get_country_data(links[idx + 1].page, neighbors_map)} :
         IF c_data.raised
         THEN /\ pc' = "crashed"
              /\ UNCHANGED <<ret, idx, all_data>>
         ELSE /\ ret' = c_data.value
              /\ all_data' = IF c_data.value # None /\ ~Falsy(c_data.value[1].name)
                             THEN Append(all_data, c_data.value[1])
                             ELSE all_data
              /\ idx' = idx + 1
              /\ pc' = pc
  /\ UNCHANGED <<arg, catalog, listing, links, neighbors_map, output, RecordVars>>

\* lines 363-364
WriteOutput ==
  /\ pc = "scraping"
  /\ idx = Len(links)
  /\ output' = Some(all_data)
  /\ pc' = "done"
  /\ UNCHANGED <<arg, ret, catalog, listing, links, neighbors_map, idx, all_data,
                 RecordVars>>

Next == BuildNeighborsMap \/ GetAllCountryLinks \/ ScrapeNext \/ WriteOutput

Spec == Init /\ [][Next]_vars

----------------------------------------------------------------------------
(* Claims about the batch driver *)

\* the marker is absent and the heading is absent or normalizes to empty, or
\* the marker is present and its text normalizes to empty
Unresolvable(p) ==
  \/ p.fn_org = None /\ (p.h1 = None \/ Falsy(clean_text(p.h1)))
  \/ p.fn_org # None /\ Falsy(clean_text(p.fn_org))

\* the page was fetched with status 200, has an infobox and a resolvable name
Succeeds(p) ==
  p.fetch = "ok" /\ p.status = 200 /\ p.infobox /\ ~Unresolvable(p)

\* the names of the references among the first n that succeed, in their order
RecordNames(ls, n) ==
  LET ok == SelectSeq(SubSeq(ls, 1, n), LAMBDA l : Succeeds(l.page))
  IN  [i \in 1..Len(ok) |->
         IF ok[i].page.fn_org # None THEN clean_text(ok[i].page.fn_org)
                                     ELSE clean_text(ok[i].page.h1)]

\* C1: the batch visits every reference in order and never stops early; its
\* output holds exactly one record for each reference whose page was fetched
\* with status 200, has an infobox and a resolvable name, in the order of the
\* references, and nothing for any other reference
C1_BatchDriver ==
  /\ pc # "crashed"
  /\ [i \in 1..Len(all_data) |-> all_data[i].name] = RecordNames(links, idx)
  /\ pc = "done" => idx = Len(links) /\ output = Some(all_data)

\* C2: every record of the output has a non-empty name; for a page whose name
\* does not resolve get_country_data returns no record and the output holds
\* nothing for it
C2_NameResolution ==
  /\ \A i \in 1..Len(all_data) : ~Falsy(all_data[i].name)
  /\ output # None => \A i \in 1..Len(output[1]) : ~Falsy(output[1][i].name)
  /\ (idx > 0 /\ Unresolvable(links[idx].page)) => ret = None
  /\ Len(all_data) <= Cardinality({i \in 1..idx : ~Unresolvable(links[i].page)})

\* a record is written, then a page whose marker is present but empty (its
\* heading is not) yields no record, and the output holds the one record
C2_Witness ==
  /\ pc = "done"
  /\ idx = 2
  /\ links[2].page = PageEmptyMarker
  /\ ret = None
  /\ output = Some(all_data)
  /\ Len(all_data) = 1
  /\ all_data[1].name = Some(Niger)

\* the positions of the keys equal to name
ExactKeys(name, nmap) == {i \in 1..Len(nmap) : nmap[i].k = Some(name)}

\* the positions of the non-empty keys that contain name or lie within it
FuzzyKeys(name, nmap) ==
  {i \in 1..Len(nmap) :
     /\ nmap[i].k # None
     /\ nmap[i].k[1] # << >>
     /\ (Contains(nmap[i].k[1], name) \/ Contains(name, nmap[i].k[1]))}

Least(S) == CHOOSE x \in S : \A y \in S : x <= y

\* C4: a record whose name is a key of the neighbor map has that key's value as
\* its neighbors, whatever other keys contain the name or lie within it;
\* otherwise its neighbors are those of the first non-empty key, in the map's
\* order, that contains the name or lies within it, and empty without one
C4_NeighborResolution ==
  (idx > 0 /\ ret # None) =>
    LET name  == ret[1].name[1]
        exact == ExactKeys(name, neighbors_map)
        fuzzy == FuzzyKeys(name, neighbors_map)
    IN  ret[1].neighbors =
          IF exact # {} THEN neighbors_map[Least(exact)].v
          ELSE IF fuzzy # {} THEN neighbors_map[Least(fuzzy)].v
          ELSE {}

\* the record of Niger, resolved against a map whose first key, Nigeria,
\* contains the name and whose second key is the name
C4_Witness ==
  /\ idx > 0
  /\ ret # None
  /\ ret[1].name = Some(Niger)
  /\ Len(neighbors_map) = 2
  /\ neighbors_map[1].k = Some(Nigeria)
  /\ neighbors_map[2].k = Some(Niger)
  /\ ret[1].neighbors = {Chad}
  /\ neighbors_map[1].v # {Chad}

\* the rows of the listing that build_neighbors_map takes a key from
KeyRows(l) ==
  {i \in 2..Len(l.rows) : l.rows[i].ncells >= 4 /\ l.rows[i].country_link # None}

\* nmap is what the listing l gives: empty when the fetch failed or the table
\* is missing, else one entry for each key of a row of the listing, holding the
\* neighbors of the last row with that key
MapBuilt(nmap, l) ==
  IF l.fetch = "error" \/ ~l.table THEN nmap = << >>
  ELSE /\ {nmap[j].k : j \in 1..Len(nmap)} =
            {clean_text(l.rows[i].country_link) : i \in KeyRows(l)}
       /\ \A j, k \in 1..Len(nmap) : nmap[j].k = nmap[k].k => j = k
       /\ \A j \in 1..Len(nmap) :
            LET last == CHOOSE i \in KeyRows(l) :
                          /\ clean_text(l.rows[i].country_link) = nmap[j].k
                          /\ \A h \in KeyRows(l) :
                               clean_text(l.rows[h].country_link) = nmap[j].k => h <= i
            IN  nmap[j].v = NeighborsList(l.rows[last].neighbor_links)

\* C12: build_neighbors_map has completed, with the full map or with an empty
\* one when the listing's fetch failed or its table is missing, before any
\* call of get_country_data starts, and from then on no step changes the map
C12_MapLifecycle ==
  [][ /\ (idx' # idx \/ pc' = "crashed") =>
           (pc = "scraping" /\ MapBuilt(neighbors_map, listing[1]))
      /\ pc # "start" => neighbors_map' = neighbors_map ]_vars

\* two records, each with neighbors, resolved against one map of two keys and
\* written to the output
C12_Witness ==
  /\ pc = "done"
  /\ Len(neighbors_map) = 2
  /\ MapBuilt(neighbors_map, listing[1])
  /\ Len(all_data) = 2
  /\ all_data[1].neighbors # {}
  /\ all_data[2].neighbors # {}
  /\ all_data[1].neighbors # all_data[2].neighbors
====
